---- MODULE Spec2Model ----
(***************************************************************************)
(* The canvas system of src/main.js: the AbstractCanvas lifecycle         *)
(* (constructor, resize, start, stop, animate), its five effects, the      *)
(* shared mouse tracker, and the host's frame scheduler                    *)
(* (requestAnimationFrame / cancelAnimationFrame), intersection observer   *)
(* and resize event.                                                       *)
(*                                                                         *)
(* One action is one host event handled to completion: JavaScript runs a   *)
(* handler synchronously, so no other handler interleaves with it.         *)
(***************************************************************************)
EXTENDS Integers, Sequences, FiniteSets, TLC

\* The five sessions constructed at main.js:330-334, in construction order.
Sessions == {"hero", "about", "skills", "projects", "contact"}

\* ---------------------------------------------------------------- bounds
\* Canvas elements the page holds, of the five the script looks up.
MaxPresent == 2
\* Viewport sizes <<innerWidth, innerHeight>> the host may report: an empty
\* one, one with a width off and a height on a multiple of the grid spacing,
\* and 800 x 600.
Viewports == {<<0, 1>>, <<51, 50>>, <<800, 600>>}
\* Pointer positions delivered by mousemove, besides the default.
MousePositions == {<<100, 100>>}

\* ------------------------------------------------------- program constants
\* this.animationId = null; a frame handle is a positive integer, and the
\* code only ever tests animationId for truthiness.
Null == 0
\* AboutCanvas.init: this.spacing = 50
Spacing == 50
\* HeroCanvas.init: this.count = 80
HeroCount == 80
\* SkillsCanvas.init: for (let i = 0; i < 15; i++)
SkillsCount == 15
\* ContactCanvas.init: for (let i = 0; i < 50; i++)
ContactCount == 50
\* const mouse = { x: -1000, y: -1000 }
MouseDefault == -1000

VARIABLES
    canvas,          \* canvas[s]: document.getElementById found the element
    initCalled,      \* sessions whose init() ran
    observers,       \* sessions whose IntersectionObserver observes a section
    resizeListeners, \* sessions with a window "resize" listener
    width, height,   \* this.width, this.height
    canvasWidth, canvasHeight, \* this.canvas.width, this.canvas.height
    isVisible,       \* this.isVisible
    animationId,     \* this.animationId (Null or a handle)
    entities,        \* size of the effect's entity collection
    pending,         \* pending[s]: handles of the frame callbacks of s the host holds
    innerWidth, innerHeight, \* window.innerWidth, window.innerHeight
    mouse,           \* the shared mouse tracker
    last,            \* the event handled last: [op, s, threw]
    trace            \* trace[s]: the calls the last handler made on behalf of s

vars == <<canvas, initCalled, observers, resizeListeners, width, height,
          canvasWidth, canvasHeight, isVisible, animationId, entities,
          pending, innerWidth, innerHeight, mouse, last, trace>>

\* JavaScript truthiness of animationId: null and 0 are falsy.
Truthy(v) == v # Null

\* ------------------------------------------------------------- the effects
\* AboutCanvas.createDots: the dots the inner loop pushes for column x, from y on.
RECURSIVE createDotsColumn(_, _, _)
createDotsColumn(x, y, h) ==
    IF y < h
    THEN <<[originX |-> x, originY |-> y, x |-> x, y |-> y]>>
             \o createDotsColumn(x, y + Spacing, h)
    ELSE <<>>

\* The dots the outer loop pushes, from column x on.
RECURSIVE createDotsRows(_, _, _)
createDotsRows(x, w, h) ==
    IF x < w
    THEN createDotsColumn(x, 0, h) \o createDotsRows(x + Spacing, w, h)
    ELSE <<>>

\* Variant: the outer loop runs while x <= this.width.
createDotsInclusive(w, h) == createDotsRows(0, w + 1, h)

\* AboutCanvas.createDots: this.dots after the call, for this.width = w and
\* this.height = h.
createDots(w, h) == createDotsRows(0, w, h)

\* this.dots.length after createDots, for each viewport the host reports.
dotsLength == [v \in Viewports |-> Len(createDots(v[1], v[2]))]

\* init() of each subclass: the size of the collection it builds.
init(s, w, h) ==
    CASE s = "hero" -> HeroCount
      [] s = "about" -> dotsLength[<<w, h>>]
      [] s = "skills" -> SkillsCount
      [] s = "projects" -> 0
      [] s = "contact" -> ContactCount

\* Only AboutCanvas defines onResize.
HasOnResize(s) == s = "about"

\* --------------------------------------------------------- the session view
\* The part of the state a method of session s reads and writes, with the
\* calls it makes (calls) and whether an exception left the handler (threw).
Ctx(s) ==
    [width |-> width[s], height |-> height[s],
     canvasWidth |-> canvasWidth[s], canvasHeight |-> canvasHeight[s],
     isVisible |-> isVisible[s], animationId |-> animationId[s],
     entities |-> entities[s],
     pending |-> pending,
     held |-> {animationId[t] : t \in Sessions \ {s}},
     calls |-> <<>>, threw |-> FALSE]

\* requestAnimationFrame: the host returns a handle it has not handed out
\* before. The code stores a handle, tests it for truthiness and passes it to
\* cancelAnimationFrame, and does nothing else with it, so a new handle is
\* named here by the least positive number that no session holds and no
\* pending callback has: no code can tell it from a larger one.
requestAnimationFrame(c) ==
    LET used == UNION {c.pending[t] : t \in Sessions} \cup c.held \cup {c.animationId}
    IN  CHOOSE n \in 1..(Cardinality(used) + 1) :
            n \notin used /\ \A m \in 1..(n - 1) : m \in used

\* cancelAnimationFrame(id): the host drops the callback with that handle.
cancelAnimationFrame(p, id) == [t \in Sessions |-> p[t] \ {id}]

\* Variant: animate without the isVisible test.
animateNoVisibilityCheck(c, s, throws) ==
    LET c1 == [c EXCEPT !.calls = Append(Append(@, "clearRect"), "draw")]
    IN  IF throws
        THEN [c1 EXCEPT !.threw = TRUE]
        ELSE [c1 EXCEPT !.animationId = requestAnimationFrame(c),
                        !.pending[s] = @ \cup {requestAnimationFrame(c)},
                        !.calls = Append(@, "requestAnimationFrame")]

\* Variant: animate requests the next frame even when draw throws.
animateReschedulesOnThrow(c, s, throws) ==
    IF ~c.isVisible
    THEN c
    ELSE [c EXCEPT !.animationId = requestAnimationFrame(c),
                   !.pending[s] = @ \cup {requestAnimationFrame(c)},
                   !.threw = throws,
                   !.calls = @ \o <<"clearRect", "draw", "requestAnimationFrame">>]

\* AbstractCanvas.animate; throws: the effect's draw routine throws, and the
\* exception leaves animate before requestAnimationFrame is reached.
animate(c, s, throws) ==
    IF ~c.isVisible
    THEN c
    ELSE LET c1 == [c EXCEPT !.calls = Append(Append(@, "clearRect"), "draw")]
         IN  IF throws
             THEN [c1 EXCEPT !.threw = TRUE]
             ELSE [c1 EXCEPT !.animationId = requestAnimationFrame(c),
                             !.pending[s] = @ \cup {requestAnimationFrame(c)},
                             !.calls = Append(@, "requestAnimationFrame")]

\* Variant: start without the animationId test.
startUnguarded(c, s, throws) == animate(c, s, throws)

\* Variant: start tests isVisible instead of animationId.
startChecksVisible(c, s, throws) ==
    IF c.isVisible THEN animate(c, s, throws) ELSE c

\* AbstractCanvas.start
start(c, s, throws) ==
    IF ~Truthy(c.animationId) THEN animate(c, s, throws) ELSE c

\* Variant: stop cancels the frame and keeps the handle.
stopKeepsHandle(c, s) ==
    IF Truthy(c.animationId)
    THEN [c EXCEPT !.pending = cancelAnimationFrame(@, c.animationId),
                   !.calls = Append(@, "cancelAnimationFrame")]
    ELSE c

\* Variant: stop clears the handle and leaves the callback with the host.
stopNoCancel(c, s) ==
    IF Truthy(c.animationId)
    THEN [c EXCEPT !.animationId = Null,
                   !.calls = Append(@, "cancelAnimationFrame")]
    ELSE c

\* AbstractCanvas.stop
stop(c, s) ==
    IF Truthy(c.animationId)
    THEN [c EXCEPT !.pending = cancelAnimationFrame(@, c.animationId),
                   !.animationId = Null,
                   !.calls = Append(@, "cancelAnimationFrame")]
    ELSE c

\* Variant: resize also stops the render loop.
resizeRestarts(c, s, w, h) ==
    LET c1 == [c EXCEPT !.width = w, !.canvasWidth = w,
                        !.height = h, !.canvasHeight = h,
                        !.calls = Append(@, "resize")]
        c2 == IF HasOnResize(s)
              THEN [c1 EXCEPT !.entities = dotsLength[<<w, h>>],
                              !.calls = Append(@, "onResize")]
              ELSE c1
    IN  stop(c2, s)

\* AbstractCanvas.resize, with the viewport (w, h) the host reports.
resize(c, s, w, h) ==
    LET c1 == [c EXCEPT !.width = w, !.canvasWidth = w,
                        !.height = h, !.canvasHeight = h,
                        !.calls = Append(@, "resize")]
    IN  IF HasOnResize(s)
        THEN [c1 EXCEPT !.entities = dotsLength[<<w, h>>],
                        !.calls = Append(@, "onResize")]
        ELSE c1

\* Variant: the leave branch does not call stop.
onIntersectLeaveKeepsLoop(c, s, isIntersecting, throws) ==
    IF isIntersecting
    THEN start([c EXCEPT !.isVisible = TRUE], s, throws)
    ELSE [c EXCEPT !.isVisible = FALSE]

\* The IntersectionObserver callback, for one entry.
onIntersect(c, s, isIntersecting, throws) ==
    IF isIntersecting
    THEN start([c EXCEPT !.isVisible = TRUE], s, throws)
    ELSE stop([c EXCEPT !.isVisible = FALSE], s)

\* Variant: init() runs before the test for the element.
constructorInitFirst(s, present, w, h) ==
    [canvas |-> present,
     width |-> IF present THEN w ELSE 0,
     height |-> IF present THEN h ELSE 0,
     animationId |-> Null, isVisible |-> FALSE,
     initCalled |-> TRUE,
     entities |-> init(s, w, h),
     observed |-> present, listening |-> present]

\* AbstractCanvas.constructor: what the session is after construction, for a
\* found (present) or missing element. A missing element returns before any
\* field is assigned: the fields stay undefined (falsy), written here as
\* FALSE / Null / 0.
constructor(s, present, w, h) ==
    IF ~present
    THEN [canvas |-> FALSE, width |-> 0, height |-> 0,
          animationId |-> Null, isVisible |-> FALSE,
          initCalled |-> FALSE, entities |-> 0,
          observed |-> FALSE, listening |-> FALSE]
    ELSE [canvas |-> TRUE, width |-> w, height |-> h,
          animationId |-> Null, isVisible |-> FALSE,
          initCalled |-> TRUE, entities |-> init(s, w, h),
          observed |-> TRUE, listening |-> TRUE]

\* ------------------------------------------------------------------- Init
\* The pages considered: which of the five elements getElementById finds.
Pages ==
    {present \in [Sessions -> BOOLEAN] :
        Cardinality({s \in Sessions : present[s]}) <= MaxPresent}

\* The page after main.js has run: any subset of the five elements exists,
\* the viewport has some size, the canvas elements still have the size the
\* markup gave them (HTML's default 300 x 150), nothing has been scheduled.
Init ==
    \E present \in Pages, v \in Viewports :
        LET w == v[1]
            h == v[2]
            o == [s \in Sessions |-> constructor(s, present[s], w, h)]
        IN  /\ canvas = [s \in Sessions |-> o[s].canvas]
            /\ initCalled = {s \in Sessions : o[s].initCalled}
            /\ observers = {s \in Sessions : o[s].observed}
            /\ resizeListeners = {s \in Sessions : o[s].listening}
            /\ width = [s \in Sessions |-> o[s].width]
            /\ height = [s \in Sessions |-> o[s].height]
            /\ canvasWidth = [s \in Sessions |-> IF o[s].canvas THEN 300 ELSE 0]
            /\ canvasHeight = [s \in Sessions |-> IF o[s].canvas THEN 150 ELSE 0]
            /\ isVisible = [s \in Sessions |-> o[s].isVisible]
            /\ animationId = [s \in Sessions |-> o[s].animationId]
            /\ entities = [s \in Sessions |-> o[s].entities]
            /\ pending = [s \in Sessions |-> {}]
            /\ innerWidth = w
            /\ innerHeight = h
            /\ mouse = [x |-> MouseDefault, y |-> MouseDefault]
            /\ last = [op |-> "load", s |-> "none", threw |-> FALSE]
            /\ trace = [s \in Sessions |-> <<>>]

\* ---------------------------------------------------------------- actions
\* Write the session view c of s back, as the outcome of event op.
Commit(s, c, op) ==
    /\ width' = [width EXCEPT ![s] = c.width]
    /\ height' = [height EXCEPT ![s] = c.height]
    /\ canvasWidth' = [canvasWidth EXCEPT ![s] = c.canvasWidth]
    /\ canvasHeight' = [canvasHeight EXCEPT ![s] = c.canvasHeight]
    /\ isVisible' = [isVisible EXCEPT ![s] = c.isVisible]
    /\ animationId' = [animationId EXCEPT ![s] = c.animationId]
    /\ entities' = [entities EXCEPT ![s] = c.entities]
    /\ pending' = c.pending
    /\ last' = [op |-> op, s |-> s, threw |-> c.threw]
    /\ trace' = [t \in Sessions |-> IF t = s THEN c.calls ELSE <<>>]
    /\ UNCHANGED <<canvas, initCalled, observers, resizeListeners,
                   innerWidth, innerHeight, mouse>>

\* The observer reports that the section of s intersects the viewport.
Enter(s) ==
    /\ s \in observers
    /\ Commit(s, onIntersect(Ctx(s), s, TRUE, FALSE), "enter")

\* The observer reports that the section of s left the viewport.
Leave(s) ==
    /\ s \in observers
    /\ Commit(s, onIntersect(Ctx(s), s, FALSE, FALSE), "leave")

\* The host runs the pending frame callback h of s: () => this.animate().
Frame(s) ==
    \E h \in pending[s] :
        Commit(s, animate([Ctx(s) EXCEPT !.pending[s] = @ \ {h}], s, FALSE), "frame")

\* The window is resized to (w, h) and the resize event reaches every listener.
Resize ==
    \E v \in Viewports :
        LET w == v[1]
            h == v[2]
            r == [s \in Sessions |->
                     IF s \in resizeListeners THEN resize(Ctx(s), s, w, h) ELSE Ctx(s)]
        IN  /\ innerWidth' = w
            /\ innerHeight' = h
            /\ width' = [s \in Sessions |-> r[s].width]
            /\ height' = [s \in Sessions |-> r[s].height]
            /\ canvasWidth' = [s \in Sessions |-> r[s].canvasWidth]
            /\ canvasHeight' = [s \in Sessions |-> r[s].canvasHeight]
            /\ isVisible' = [s \in Sessions |-> r[s].isVisible]
            /\ animationId' = [s \in Sessions |-> r[s].animationId]
            /\ entities' = [s \in Sessions |-> r[s].entities]
            /\ pending' = [s \in Sessions |-> r[s].pending[s]]
            /\ trace' = [s \in Sessions |-> r[s].calls]
            /\ last' = [op |-> "resize", s |-> "none", threw |-> FALSE]
            /\ UNCHANGED <<canvas, initCalled, observers, resizeListeners,
                           mouse>>

\* window "mousemove": the shared tracker takes the pointer position.
MouseMove ==
    \E p \in MousePositions :
        /\ mouse' = [x |-> p[1], y |-> p[2]]
        /\ last' = [op |-> "mousemove", s |-> "none", threw |-> FALSE]
        /\ trace' = [s \in Sessions |-> <<>>]
        /\ UNCHANGED <<canvas, initCalled, observers, resizeListeners, width, height,
                       canvasWidth, canvasHeight, isVisible, animationId, entities,
                       pending, innerWidth, innerHeight>>

\* The program as wired: the host delivers events, every draw returns.
Next ==
    \/ \E s \in Sessions : Enter(s)
    \/ \E s \in Sessions : Leave(s)
    \/ \E s \in Sessions : Frame(s)
    \/ Resize
    \/ MouseMove

Spec == Init /\ [][Next]_vars

\* ------------------------------------------------- the methods, called directly
\* start() and stop() are public methods of a session; a caller holding the
\* object of a session with a canvas may call them in any state. The
\* specifications below follow the lifecycle alone: resize and mousemove
\* write none of isVisible, animationId and the pending callbacks.
Start(s) ==
    /\ canvas[s]
    /\ LET c == start(Ctx(s), s, FALSE)
       IN  Commit(s, c, "start")

Stop(s) ==
    /\ canvas[s]
    /\ LET c == stop(Ctx(s), s)
       IN  Commit(s, c, "stop")

NextApi ==
    \/ \E s \in Sessions : Enter(s)
    \/ \E s \in Sessions : Leave(s)
    \/ \E s \in Sessions : Frame(s)
    \/ \E s \in Sessions : Start(s)
    \/ \E s \in Sessions : Stop(s)

SpecApi == Init /\ [][NextApi]_vars

\* ------------------------------------------------------- a draw that throws
\* The same handlers when the draw routine they reach throws: the exception
\* leaves animate before requestAnimationFrame and nothing catches it.
EnterThrows(s) ==
    /\ s \in observers
    /\ LET c == onIntersect(Ctx(s), s, TRUE, TRUE)
       IN  c.threw /\ Commit(s, c, "enter")

FrameThrows(s) ==
    \E h \in pending[s] :
        LET c == animate([Ctx(s) EXCEPT !.pending[s] = @ \ {h}], s, TRUE)
        IN  c.threw /\ Commit(s, c, "frame")

StartThrows(s) ==
    /\ canvas[s]
    /\ LET c == start(Ctx(s), s, TRUE)
       IN  c.threw /\ Commit(s, c, "start")

NextFail ==
    \/ NextApi
    \/ \E s \in Sessions : EnterThrows(s)
    \/ \E s \in Sessions : FrameThrows(s)
    \/ \E s \in Sessions : StartThrows(s)

SpecFail == Init /\ [][NextFail]_vars

\* ================================================================= claims
\* The last event was handled by session s.
LastOn(s) == last.s = s

\* A session is running: it holds a handle and the host holds its callback.
Running(s) == Truthy(animationId[s]) /\ pending[s] # {}

\* The calls of one render-loop step that draws and reschedules.
FrameCalls == <<"clearRect", "draw", "requestAnimationFrame">>

CeilDiv(a, b) == (a + b - 1) \div b

\* ---------------------------------------------------------------------- C1
\* C1: for every session whose element exists, in every state reached by
\* enter, leave, resize and frame events, animationId is non-null if and
\* only if isVisible is true.
C1_HandleIffVisible ==
    \A s \in Sessions : canvas[s] => (Truthy(animationId[s]) <=> isVisible[s])

\* A frame callback has run and rescheduled: the session is visible and holds
\* the handle of its next frame.
C1_Witness ==
    \E s \in Sessions :
        /\ canvas[s] /\ last.op = "frame" /\ LastOn(s)
        /\ isVisible[s] /\ Truthy(animationId[s])
        /\ \E t \in Sessions \ {s} : canvas[t] /\ ~isVisible[t] /\ trace[t] = <<>>

\* ---------------------------------------------------------------------- C2
\* C2: at most one frame callback of a session is pending with the host at
\* any time, and a step that schedules a frame for a session leaves that
\* frame as the only pending one: the callback pending before the step, if
\* any, is the one that ran in this step (frames never overlap).
C2_SingleFrame ==
    /\ [](\A s \in Sessions : Cardinality(pending[s]) <= 1)
    /\ [][\A s \in Sessions :
            (pending'[s] \ pending[s] # {}) =>
                /\ Cardinality(pending'[s]) = 1
                /\ pending[s] # {} => (last'.op = "frame" /\ last'.s = s)]_vars

\* Two sessions run side by side, one of them just rescheduled by its frame
\* callback, each with exactly one pending callback.
C2_Witness ==
    \E s \in Sessions, t \in Sessions :
        /\ s # t /\ last.op = "frame" /\ LastOn(s)
        /\ Cardinality(pending[s]) = 1 /\ Cardinality(pending[t]) = 1
        /\ pending[s] # pending[t]

\* ---------------------------------------------------------------------- C3
\* C3 as stated: when visibility-leave is delivered while a frame callback is
\* scheduled, that callback is still to execute once more, so it is still
\* pending after the leave handler.
C3_InFlightFrameRuns ==
    [][\A s \in Sessions :
        (last'.op = "leave" /\ last'.s = s /\ pending[s] # {}) =>
            pending'[s] = pending[s]]_vars

\* C3 amended: the leave handler cancels the scheduled callback and clears
\* the handle, so no frame callback is pending for a session that is not
\* visible, and every frame callback that runs finds its session visible.
C3_LeaveCancelsFrame ==
    /\ [](\A s \in Sessions : ~isVisible[s] => pending[s] = {})
    /\ [][\A s \in Sessions :
            (last'.op = "leave" /\ last'.s = s /\ pending[s] # {}) =>
                /\ pending'[s] = {}
                /\ animationId'[s] = Null
                /\ trace'[s] = <<"cancelAnimationFrame">>]_vars
    /\ [][\A s \in Sessions :
            (last'.op = "frame" /\ last'.s = s /\ pending'[s] # pending[s]) =>
                isVisible[s] /\ trace'[s] = FrameCalls]_vars

\* A leave has just cancelled the scheduled frame of a session.
C3_Witness ==
    \E s \in Sessions :
        /\ last.op = "leave" /\ LastOn(s)
        /\ trace[s] = <<"cancelAnimationFrame">>
        /\ ~isVisible[s] /\ pending[s] = {} /\ animationId[s] = Null

\* ---------------------------------------------------------------------- C4
\* C4: for a session whose element is absent at construction, init is never
\* invoked, no observer and no resize listener is registered, and under any
\* sequence of resize, visibility and pointer events no loop is started and
\* no frame is scheduled for it: its handler makes no call at all.
C4_AbsentInert ==
    \A s \in Sessions :
        ~canvas[s] =>
            /\ s \notin initCalled
            /\ s \notin observers
            /\ s \notin resizeListeners
            /\ pending[s] = {}
            /\ ~Truthy(animationId[s])
            /\ ~isVisible[s]
            /\ trace[s] = <<>>
            /\ last.s # s

\* A resize reaches the page while one session runs and another has no element.
C4_Witness ==
    \E s \in Sessions, t \in Sessions :
        /\ ~canvas[s] /\ canvas[t] /\ Running(t)
        /\ last.op = "resize" /\ trace[t] # <<>> /\ trace[s] = <<>>
        /\ mouse.x # MouseDefault

\* ---------------------------------------------------------------------- C5
\* C5: start on a running session (by a direct call or by a repeated
\* visibility-enter) is a no-op: no draw step, no additional frame, and
\* exactly one pending callback afterwards.
C5_StartIdempotent ==
    [][\A s \in Sessions :
        (last'.op \in {"start", "enter"} /\ last'.s = s /\ Running(s)) =>
            /\ trace'[s] = <<>>
            /\ pending' = pending
            /\ animationId' = animationId
            /\ Cardinality(pending'[s]) = 1]_vars

\* start has just been called on a session that was running: it made no call
\* and the one callback is still pending.
C5_Witness ==
    \E s \in Sessions :
        /\ last.op = "start" /\ LastOn(s)
        /\ Running(s) /\ trace[s] = <<>> /\ Cardinality(pending[s]) = 1

\* ---------------------------------------------------------------------- C6
\* C6: stop on a running session cancels its pending frame and clears the
\* handle, so no frame is pending afterwards; stop on a session that is not
\* running changes no session state and cancels nothing; stop after stop
\* equals one stop.
C6_StopIdempotent ==
    /\ [][\A s \in Sessions :
            (last'.op = "stop" /\ last'.s = s) =>
                IF Truthy(animationId[s])
                THEN /\ pending[s] # {}
                     /\ pending'[s] = {}
                     /\ animationId'[s] = Null
                     /\ trace'[s] = <<"cancelAnimationFrame">>
                     /\ isVisible'[s] = isVisible[s]
                ELSE /\ pending' = pending
                     /\ animationId' = animationId
                     /\ isVisible' = isVisible
                     /\ trace'[s] = <<>>]_vars
    /\ [](\A s \in Sessions :
            /\ stop(stop(Ctx(s), s), s) = stop(Ctx(s), s)
            /\ stop(Ctx(s), s).pending[s] = {}
            /\ stop(Ctx(s), s).animationId = Null)

\* stop has just been called on a visible, running session.
C6_Witness ==
    \E s \in Sessions :
        /\ last.op = "stop" /\ LastOn(s)
        /\ trace[s] = <<"cancelAnimationFrame">>
        /\ isVisible[s] /\ pending[s] = {} /\ animationId[s] = Null

\* ---------------------------------------------------------------------- C7
\* C7: the recorded width and height of a session equal the viewport, after
\* every resize the canvas has them too, and the grid effect (spacing 50) has
\* ceil(width/spacing) * ceil(height/spacing) entities at setup and after
\* every resize, regenerated by the resize; 800 x 600 gives 16 x 12 = 192.
C7_GridMatchesViewport ==
    \A s \in Sessions :
        canvas[s] =>
            /\ width[s] = innerWidth
            /\ height[s] = innerHeight
            /\ last.op = "resize" =>
                  /\ canvasWidth[s] = innerWidth
                  /\ canvasHeight[s] = innerHeight
                  /\ HasOnResize(s) => trace[s] = <<"resize", "onResize">>
            /\ HasOnResize(s) =>
                  /\ entities[s] = CeilDiv(width[s], Spacing) * CeilDiv(height[s], Spacing)
                  /\ (width[s] = 800 /\ height[s] = 600) => entities[s] = 192

\* A resize to 800 x 600 has just regenerated the 192 dots of the grid.
C7_Witness ==
    /\ canvas["about"] /\ last.op = "resize"
    /\ innerWidth = 800 /\ innerHeight = 600
    /\ canvasWidth["about"] = 800 /\ canvasHeight["about"] = 600
    /\ entities["about"] = 192

\* ---------------------------------------------------------------------- C8
\* The step to the next state ran animate for session s: a frame callback,
\* or a start (direct or by visibility-enter) that found no handle.
RanAnimate(s) ==
    /\ last'.s = s
    /\ \/ last'.op = "frame"
       \/ last'.op \in {"start", "enter"} /\ ~Truthy(animationId[s])

\* isVisible when that animate ran: visibility-enter sets it before start.
VisibleAtStep(s) == IF last'.op = "enter" THEN TRUE ELSE isVisible[s]

\* C8: a render-loop step of a session that is not visible clears nothing,
\* draws nothing, schedules nothing and leaves the session state unchanged;
\* a step of a visible session clears, then draws, then schedules exactly one
\* next step, so a frame is pending after every step of a visible session.
C8_AnimateStep ==
    [][\A s \in Sessions :
        RanAnimate(s) =>
            IF VisibleAtStep(s)
            THEN /\ trace'[s] = FrameCalls
                 /\ Cardinality(pending'[s]) = 1
                 /\ pending'[s] = {animationId'[s]}
                 /\ animationId'[s] \notin pending[s]
                 /\ isVisible'[s]
            ELSE /\ trace'[s] = <<>>
                 /\ pending'[s] \subseteq pending[s]
                 /\ animationId' = animationId
                 /\ isVisible' = isVisible
                 /\ width' = width /\ height' = height
                 /\ canvasWidth' = canvasWidth /\ canvasHeight' = canvasHeight
                 /\ entities' = entities]_vars

\* A frame callback of a visible session has just cleared, drawn and
\* scheduled its successor.
C8_Witness ==
    \E s \in Sessions :
        /\ last.op = "frame" /\ LastOn(s) /\ isVisible[s]
        /\ trace[s] = FrameCalls /\ pending[s] = {animationId[s]}

\* ---------------------------------------------------------------------- C9
\* C9: a draw that throws during a frame step schedules no next frame and
\* leaves the session visible with no frame pending and animationId as it
\* was (the stale handle, when the step was a frame callback); with a stale
\* handle, a further start or visibility-enter does not restart the loop.
C9_DrawErrorStopsLoop ==
    /\ [][\A s \in Sessions :
            (last'.threw /\ last'.s = s) =>
                /\ trace'[s] = <<"clearRect", "draw">>
                /\ isVisible'[s]
                /\ pending'[s] = {}
                /\ animationId'[s] = animationId[s]
                /\ last'.op = "frame" => Truthy(animationId'[s])]_vars
    /\ [][\A s \in Sessions :
            (/\ last'.op \in {"start", "enter"} /\ last'.s = s
             /\ Truthy(animationId[s]) /\ pending[s] = {}) =>
                /\ trace'[s] = <<>>
                /\ pending'[s] = {}
                /\ animationId'[s] = animationId[s]]_vars

\* After a frame callback threw, a visibility-enter found the stale handle
\* and started nothing: the session is visible and no frame is pending.
C9_Witness ==
    \E s \in Sessions :
        /\ last.op = "enter" /\ LastOn(s) /\ ~last.threw
        /\ isVisible[s] /\ Truthy(animationId[s]) /\ pending[s] = {}
        /\ trace[s] = <<>>

\* --------------------------------------------------------------------- C10
\* C10: a resize leaves isVisible, animationId and the pending callbacks of
\* every session unchanged, and for hero, skills, projects and contact it
\* leaves the entity collection unchanged and calls nothing but resize.
C10_ResizeKeepsLoop ==
    [][last'.op = "resize" =>
        /\ isVisible' = isVisible
        /\ animationId' = animationId
        /\ pending' = pending
        /\ \A s \in Sessions \ {"about"} :
              /\ ~HasOnResize(s)
              /\ entities'[s] = entities[s]
              /\ canvas[s] => trace'[s] = <<"resize">>]_vars

\* A resize has just reached a running hero session: the loop still runs, the
\* 80 particles are in place and the canvas has the viewport's size.
C10_Witness ==
    /\ last.op = "resize" /\ canvas["hero"] /\ Running("hero")
    /\ entities["hero"] = HeroCount
    /\ canvasWidth["hero"] = innerWidth /\ width["hero"] = innerWidth
    /\ trace["hero"] = <<"resize">>

====
